---------------------------- MODULE Spec2Model ----------------------------
(***************************************************************************)
(* libSQL vector search (libsql-sqlite3/src/vector.c, vectorInt.h).        *)
(*                                                                         *)
(* Four specifications over one set of variables:                          *)
(*   SpecCreate  vectorIndexCreate, one call on a fresh database           *)
(*   SpecCursor  vectorIndexCursorInit / vectorIndexInsert /               *)
(*               vectorIndexCursorClose over a set of host cursors         *)
(*   SpecParse   vectorParse on one SQL value                              *)
(*   SpecFunc    the SQL functions vector, vector_extract and              *)
(*               vector_distance_cos                                       *)
(* Strings are sequences of one-character strings; a C string's            *)
(* terminating NUL is the end of the sequence.                             *)
(***************************************************************************)
EXTENDS Integers, Sequences, FiniteSets, TLC

VARIABLES
  crPc,        \* "idle" before vectorIndexCreate is called, "done" after it returned
  crIn,        \* the arguments and environment answers of the call
  crRet,       \* vectorIndexCreate's return value
  crErr,       \* pParse's error message ("" when sqlite3ErrorMsg was not called)
  shadowTables,\* names of the shadow tables sqlite3_exec created
  hostEv,      \* the last host event: [op, ret, ann], ann the ANN engine calls it made
  heapObjs,    \* VectorIdxCursor objects: id -> [st, index]
  cursors,     \* host VdbeCursors: cursor -> [life, pVecIdx]
  handles,     \* ANN engine handles handed out: handle -> [owner, closes, inserts]
  pPc,         \* "ready" before vectorParse is called, "returned" / "aborted" after
  pIn,         \* the sqlite3_value handed to vectorParse
  pOut,        \* what vectorParse left behind
  fPc,         \* "idle", "returned" or "aborted": the SQL function call
  fCall,       \* which SQL function ran and what its arguments decoded to
  fVecs,       \* Vector objects the call allocated: <<[freed, flags]>>
  fRes,        \* the sqlite3_context result the call set
  bPc,         \* "idle", "encoded" after vectorSerializeToBlob, "decoded" after vectorDeserializeFromBlob
  bVec,        \* the Vector handed to vectorSerializeToBlob
  bBlob,       \* the caller's buffer: its size, the bytes written, the length returned
  bDec         \* the Vector vectorDeserializeFromBlob filled and what it returned

vars == <<crPc, crIn, crRet, crErr, shadowTables, hostEv, heapObjs, cursors,
          handles, pPc, pIn, pOut, fPc, fCall, fVecs, fRes,
          bPc, bVec, bBlob, bDec>>

createVars == <<crPc, crIn, crRet, crErr, shadowTables>>
cursorVars == <<heapObjs, cursors, handles>>
parseVars  == <<pPc, pIn, pOut>>
funcVars   == <<fPc, fCall, fVecs, fRes>>
blobVars   == <<bPc, bVec, bBlob, bDec>>

---------------------------------------------------------------------------
(* Program constants *)

VECTOR_TYPE_FLOAT32 == 0
VECTOR_FLAGS_STATIC == 1
VECTOR_DISTANCE_COS == 0
SQLITE_OK == 0
SQLITE_NOMEM == 7

(* MAX_VECTOR_SZ is 16000 and MAX_FLOAT_CHAR_SZ is 1024 in the source; the  *)
(* model runs them scaled down so that both limits are reached by short    *)
(* inputs.  Nothing below depends on the particular value.                 *)
MAX_VECTOR_SZ == 2
MAX_FLOAT_CHAR_SZ == 2

(* Bounds of the model *)
MaxUsing == 2      \* longest USING identifier list
MaxTypeTail == 2   \* characters of the declared type after its prefix
MaxText == 5       \* longest text literal handed to vectorParse
MaxBlob == 5       \* longest blob (bytes) handed to vectorParse / insert
MaxObjs == 3       \* VectorIdxCursor allocations over a run
MaxHandles == 3    \* ANN handles the engine hands out over a run

(* the null pointer; a null message pointer is written NullMsg *)
NULL == 0
NullMsg == "(null)"

RECURSIVE SeqsUpTo(_, _)
SeqsUpTo(S, n) ==
  IF n = 0 THEN {<<>>}
  ELSE LET shorter == SeqsUpTo(S, n - 1)
       IN  shorter \cup {Append(s, c) : s \in {t \in shorter : Len(t) = n - 1}, c \in S}

Max(a, b) == IF a >= b THEN a ELSE b

---------------------------------------------------------------------------
(* sqliteInt.h character classes and case-insensitive comparison, on the   *)
(* characters the model uses                                               *)

sqlite3Isspace(c) == c \in {" ", "\t", "\n", "\r"}

sqlite3Isdigit(c) == c \in {"0", "1", "2", "3", "4", "5", "6", "7", "8", "9"}

DigitVal(c) ==
  CASE c = "0" -> 0 [] c = "1" -> 1 [] c = "2" -> 2 [] c = "3" -> 3
    [] c = "4" -> 4 [] c = "5" -> 5 [] c = "6" -> 6 [] c = "7" -> 7
    [] c = "8" -> 8 [] c = "9" -> 9

(* sqlite3UpperToLower on the letters that occur *)
ToLower(c) ==
  CASE c = "F" -> "f" [] c = "L" -> "l" [] c = "O" -> "o" [] c = "A" -> "a"
    [] c = "T" -> "t" [] c = "X" -> "x"
    [] OTHER -> c

(* z[i], 1-based, reading the terminating NUL at and past the end *)
CharAt(z, i) == IF i <= Len(z) THEN z[i] ELSE "\\0"

(* sqlite3_strnicmp(z, lit, n) == 0 *)
StrNICmpEq(z, lit, n) ==
  \A i \in 1..n : ToLower(CharAt(z, i)) = ToLower(CharAt(lit, i))

(* sqlite3_stricmp(a, b) == 0, identifiers being whole tokens of the model *)
TokenFold(t) == IF t = "DISKANN_COSINE_OPS" THEN "diskann_cosine_ops" ELSE t
StrICmpEq(a, b) == TokenFold(a) = TokenFold(b)

---------------------------------------------------------------------------
(* vectorIndexCreate *)

FLOAT32_LPAREN == <<"F", "L", "O", "A", "T", "3", "2", "(">>

TypePrefixes ==
  { FLOAT32_LPAREN,
    <<"f", "l", "o", "a", "t", "3", "2", "(">>,
    <<"F", "L", "O", "A", "T", "6", "4", "(">>,
    <<"F", "L", "O", "A", "T", "3", "2">>,
    <<>> }

TypeTailChars == {"0", "3", ")", "x"}

TypeStrings == {p \o t : p \in TypePrefixes, t \in SeqsUpTo(TypeTailChars, MaxTypeTail)}

UsingTokens == {"diskann_cosine_ops", "DISKANN_COSINE_OPS", "euclidean_ops"}

(* the parser builds an IdList by appending: it holds at least one name *)
IdLists == SeqsUpTo(UsingTokens, MaxUsing) \ {<<>>}

KeyCols == {1, 2}

(* statuses sqlite3_exec and the ANN engine may answer: SQLITE_OK, 1      *)
(* (SQLITE_ERROR) and SQLITE_NOMEM                                         *)
EngineStatus == {SQLITE_OK, 1, SQLITE_NOMEM}

(* the while loop of parseVectorDims, z the 1-based position in zType *)
RECURSIVE DimsLoop(_, _, _)
DimsLoop(zType, z, dims) ==
  IF CharAt(zType, z) # "\\0" /\ CharAt(zType, z) # ")"
  THEN IF ~sqlite3Isdigit(CharAt(zType, z))
       THEN -1
       ELSE DimsLoop(zType, z + 1, dims * 10 + DigitVal(CharAt(zType, z)))
  ELSE IF CharAt(zType, z) = "\\0" THEN -1 ELSE dims

parseVectorDims(zType) ==
  IF StrNICmpEq(zType, FLOAT32_LPAREN, 8)
  THEN DimsLoop(zType, 9, 0)
  ELSE -1

(* the for loop over pUsing: its body leaves in the first iteration, by    *)
(* break or by return, so only a[0] is ever looked at; with nId = 0 the    *)
(* loop body does not run and nDistanceOps keeps its initial 0             *)
ScanUsing(pUsing) ==
  IF 0 < Len(pUsing)
  THEN IF StrICmpEq(pUsing[1], "diskann_cosine_ops")
       THEN [ok |-> TRUE, nDistanceOps |-> VECTOR_DISTANCE_COS, zName |-> ""]
       ELSE [ok |-> FALSE, nDistanceOps |-> 0, zName |-> pUsing[1]]
  ELSE [ok |-> TRUE, nDistanceOps |-> 0, zName |-> ""]

ErrUnknownMethod == "Unknown indexing method: %s"
ErrSingleColumn == "Only single column vector indexes are supported"
ErrInvalidType == "Invalid vector type"

(* vectorIndexCreate with the shadow table created before the USING list   *)
(* is looked at                                                            *)
CreateOutcome_ProvisionFirst(in) ==
  LET scan == ScanUsing(in.pUsing)
      nDims == parseVectorDims(in.zType)
  IN  IF in.execRc # SQLITE_OK
      THEN [ret |-> in.execRc, err |-> "", shadow |-> FALSE, ann |-> <<>>]
      ELSE IF ~scan.ok
      THEN [ret |-> -1, err |-> ErrUnknownMethod, shadow |-> TRUE, ann |-> <<>>]
      ELSE IF in.nKeyCol # 1
      THEN [ret |-> -1, err |-> ErrSingleColumn, shadow |-> TRUE, ann |-> <<>>]
      ELSE IF nDims < 0
      THEN [ret |-> -1, err |-> ErrInvalidType, shadow |-> TRUE, ann |-> <<>>]
      ELSE [ret |-> in.annRc, err |-> "", shadow |-> TRUE,
            ann |-> << [fn |-> "create", rc |-> in.annRc, nDims |-> nDims,
                        nDistanceOps |-> scan.nDistanceOps] >>]

(* The whole of vectorIndexCreate: what it returns, the message it leaves  *)
(* in pParse, whether the shadow table exists afterwards, and the ANN      *)
(* engine calls it made.  execRc and annRc are the answers of sqlite3_exec *)
(* and diskAnnCreateIndex, should they be called.                          *)
CreateOutcome(in) ==
  LET scan == ScanUsing(in.pUsing)
      nDims == parseVectorDims(in.zType)
  IN  IF ~scan.ok
      THEN [ret |-> -1, err |-> ErrUnknownMethod, shadow |-> FALSE, ann |-> <<>>]
      ELSE IF in.execRc # SQLITE_OK
      THEN [ret |-> in.execRc, err |-> "", shadow |-> FALSE, ann |-> <<>>]
      ELSE IF in.nKeyCol # 1
      THEN [ret |-> -1, err |-> ErrSingleColumn, shadow |-> TRUE, ann |-> <<>>]
      ELSE IF nDims < 0
      THEN [ret |-> -1, err |-> ErrInvalidType, shadow |-> TRUE, ann |-> <<>>]
      ELSE [ret |-> in.annRc, err |-> "", shadow |-> TRUE,
            ann |-> << [fn |-> "create", rc |-> in.annRc, nDims |-> nDims,
                        nDistanceOps |-> scan.nDistanceOps] >>]

CreateInputs ==
  [pUsing : IdLists, nKeyCol : KeyCols, zType : TypeStrings,
   execRc : EngineStatus, annRc : EngineStatus]

NoEvent == [op |-> "none", ret |-> 0, ann |-> <<>>]

vectorIndexCreate ==
  /\ crPc = "idle"
  /\ \E in \in CreateInputs :
       LET r == CreateOutcome(in)
       IN  /\ crIn' = in
           /\ crRet' = r.ret
           /\ crErr' = r.err
           /\ shadowTables' = IF r.shadow THEN shadowTables \cup {"idx_shadow"}
                              ELSE shadowTables
           /\ hostEv' = [op |-> "create", ret |-> r.ret, ann |-> r.ann]
  /\ crPc' = "done"
  /\ UNCHANGED <<cursorVars, parseVars, funcVars, blobVars>>

NoCreateInput ==
  [pUsing |-> <<>>, nKeyCol |-> 1, zType |-> <<>>, execRc |-> SQLITE_OK,
   annRc |-> SQLITE_OK]

---------------------------------------------------------------------------
(* Vector index cursors *)

Cursors == {"c1", "c2"}

ObjIds == 1..MaxObjs
HandleIds == 1..MaxHandles

(* what diskAnnOpenIndex may leave in *ppIndex when it fails: the zeroed    *)
(* field untouched, or a pointer of its own that is no open index          *)
FailedIndexValues == {NULL, MaxHandles + 1}

FreshObj == [st |-> "unalloc", index |-> NULL, db |-> "none"]
FreshCursor == [life |-> "fresh", pVecIdx |-> NULL]
FreshHandle == [st |-> "unissued", owner |-> "none", closes |-> 0]

(* sqlite3DbMallocZero: the lowest address not handed out yet *)
NextObj == CHOOSE o \in ObjIds : heapObjs[o].st = "unalloc" /\
             \A q \in ObjIds : heapObjs[q].st = "unalloc" => o <= q
NextHandle == CHOOSE h \in HandleIds : handles[h].st = "unissued" /\
             \A q \in HandleIds : handles[q].st = "unissued" => h <= q

(* vectorIndexCursorInit when sqlite3DbMallocZero returns 0 *)
CursorInitNoMem(c) ==
  /\ hostEv' = [op |-> "open", cursor |-> c, ret |-> SQLITE_NOMEM, ann |-> <<>>,
                slotBefore |-> cursors[c].pVecIdx]
  /\ UNCHANGED <<heapObjs, cursors, handles>>

(* vectorIndexCursorInit storing pCur on the cursor before it looks at rc  *)
CursorInitOpenFails_StoresSlot(c, rc, left) ==
  /\ heapObjs' = [heapObjs EXCEPT ![NextObj] =
                    [st |-> "live", index |-> left, db |-> "none"]]
  /\ cursors' = [cursors EXCEPT ![c].pVecIdx = NextObj]
  /\ hostEv' = [op |-> "open", cursor |-> c, ret |-> rc,
                ann |-> << [fn |-> "open", rc |-> rc, handle |-> NULL] >>,
                slotBefore |-> cursors[c].pVecIdx]
  /\ UNCHANGED handles

(* vectorIndexCursorInit when diskAnnOpenIndex fails with rc: the early     *)
(* return leaves pCur allocated and pCsr untouched                         *)
CursorInitOpenFails(c, rc, left) ==
  /\ heapObjs' = [heapObjs EXCEPT ![NextObj] =
                    [st |-> "live", index |-> left, db |-> "none"]]
  /\ hostEv' = [op |-> "open", cursor |-> c, ret |-> rc,
                ann |-> << [fn |-> "open", rc |-> rc, handle |-> NULL] >>,
                slotBefore |-> cursors[c].pVecIdx]
  /\ UNCHANGED <<cursors, handles>>

(* vectorIndexCursorInit when diskAnnOpenIndex succeeds and hands out h *)
CursorInitOk(c, h) ==
  /\ handles' = [handles EXCEPT ![h] = [st |-> "open", owner |-> c, closes |-> 0]]
  /\ heapObjs' = [heapObjs EXCEPT ![NextObj] =
                    [st |-> "live", index |-> h, db |-> "db"]]
  /\ cursors' = [cursors EXCEPT ![c] = [life |-> "open", pVecIdx |-> NextObj]]
  /\ hostEv' = [op |-> "open", cursor |-> c, ret |-> SQLITE_OK,
                ann |-> << [fn |-> "open", rc |-> SQLITE_OK, handle |-> h] >>,
                slotBefore |-> cursors[c].pVecIdx]

(* The host opens a cursor it has just allocated (its uc.pVecIdx zeroed).  *)
vectorIndexCursorInit ==
  /\ \E c \in Cursors :
       /\ cursors[c].life = "fresh"
       /\ \/ CursorInitNoMem(c)
          \/ /\ \E o \in ObjIds : heapObjs[o].st = "unalloc"
             /\ \E rc \in EngineStatus \ {SQLITE_OK}, left \in FailedIndexValues :
                  CursorInitOpenFails(c, rc, left)
          \/ /\ \E o \in ObjIds : heapObjs[o].st = "unalloc"
             /\ \E h \in HandleIds : handles[h].st = "unissued"
             /\ CursorInitOk(c, NextHandle)
  /\ UNCHANGED <<createVars, parseVars, funcVars, blobVars>>

(* vectorInitStatic without the assignment of VECTOR_FLAGS_STATIC *)
vectorInitStatic_NoFlag(type, blob, blobSz) ==
  [type |-> type, flags |-> 0, dims |-> blobSz \div 4, data |-> blob]

(* vectorF32InitFromBlob followed by the two assignments of                *)
(* vectorInitStatic: a view over the blob's bytes                          *)
vectorInitStatic(type, blob, blobSz) ==
  [type |-> type, flags |-> VECTOR_FLAGS_STATIC, dims |-> blobSz \div 4,
   data |-> blob]

InsertBlobs == {[addr |-> "rowblob", n |-> n] : n \in {0, 4, 8}}
RowIds == {1, 2}

(* what vectorIndexInsert returns, the ANN engine having answered annRc *)
InsertReturn(annRc) == 0

(* The host inserts through an open cursor, passing pCsr->uc.pVecIdx. *)
vectorIndexInsert ==
  /\ \E c \in Cursors, blob \in InsertBlobs, rowid \in RowIds, annRc \in EngineStatus :
       /\ cursors[c].life = "open"
       /\ LET pCur == cursors[c].pVecIdx
              v == vectorInitStatic(VECTOR_TYPE_FLOAT32, blob.addr, blob.n)
          IN  hostEv' = [op |-> "insert", cursor |-> c, ret |-> InsertReturn(annRc),
                         ann |-> << [fn |-> "insert", rc |-> annRc,
                                     handle |-> heapObjs[pCur].index,
                                     v |-> v, rowid |-> rowid] >>,
                         slotBefore |-> pCur,
                         in |-> [blob |-> blob, rowid |-> rowid]]
  /\ UNCHANGED <<heapObjs, cursors, handles>>
  /\ UNCHANGED <<createVars, parseVars, funcVars, blobVars>>

(* the handle vectorIndexCursorClose passes to diskAnnCloseIndex *)
CloseHandleOf(pCur) == heapObjs[pCur].index

(* vectorIndexCursorClose freeing pCur without diskAnnCloseIndex *)
vectorIndexCursorClose_NoEngineClose ==
  /\ \E c \in Cursors :
       /\ cursors[c].life = "open"
       /\ LET pCur == cursors[c].pVecIdx
          IN  /\ heapObjs' = [heapObjs EXCEPT ![pCur].st = "freed"]
              /\ cursors' = [cursors EXCEPT ![c].life = "closed"]
              /\ hostEv' = [op |-> "close", cursor |-> c, ret |-> 0, ann |-> <<>>,
                            slotBefore |-> pCur]
              /\ UNCHANGED handles
  /\ UNCHANGED <<createVars, parseVars, funcVars, blobVars>>

(* The host closes a cursor it opened; uc.pVecIdx is left pointing at the  *)
(* freed object.                                                           *)
vectorIndexCursorClose ==
  /\ \E c \in Cursors :
       /\ cursors[c].life = "open"
       /\ LET pCur == cursors[c].pVecIdx
              h == CloseHandleOf(pCur)
          IN  /\ handles' = [handles EXCEPT ![h].closes = @ + 1, ![h].st = "closed"]
              /\ heapObjs' = [heapObjs EXCEPT ![pCur].st = "freed"]
              /\ cursors' = [cursors EXCEPT ![c].life = "closed"]
              /\ hostEv' = [op |-> "close", cursor |-> c, ret |-> 0,
                            ann |-> << [fn |-> "close", rc |-> 0, handle |-> h] >>,
                            slotBefore |-> pCur]
  /\ UNCHANGED <<createVars, parseVars, funcVars, blobVars>>

---------------------------------------------------------------------------
(* Vector objects and vectorParse *)

TextChars == {"[", "]", ",", " ", "1", "x"}

(* The sqlite3_value arguments: NULL, an integer, a blob of n bytes, a     *)
(* text, and a text whose sqlite3_value_text() answers a null pointer      *)
(* (out of memory while converting the encoding).                          *)
SqlValues ==
  {[type |-> "null"], [type |-> "integer"]}
    \cup {[type |-> "blob", n |-> n] : n \in 0..MaxBlob}
    \cup {[type |-> "text", zNull |-> FALSE, z |-> z] : z \in SeqsUpTo(TextChars, MaxText)}
    \cup {[type |-> "text", zNull |-> TRUE, z |-> <<>>]}

ElemIdx == 0..(MAX_VECTOR_SZ - 1)

(* Element values: a number, the i-th float of a blob argument, or what   *)
(* malloc left in a buffer that was never written                          *)
Num(x) == [k |-> "num", x |-> x]
BlobElem(i) == [k |-> "blob", x |-> i]
Uninit == [k |-> "uninit", x |-> 0]

(* vectorInit *)
vectorInit(type, dims, data) ==
  [type |-> type, flags |-> 0, dims |-> dims, data |-> data]

(* the Vector vectorContextAlloc returns: capacity MAX_VECTOR_SZ, the      *)
(* element buffer as malloc left it ("U": not written yet)                 *)
AllocatedVector ==
  vectorInit(VECTOR_TYPE_FLOAT32, MAX_VECTOR_SZ, [i \in ElemIdx |-> Uninit])

RECURSIVE DecVal(_)
DecVal(s) ==
  IF s = <<>> THEN 0
  ELSE DecVal(SubSeq(s, 1, Len(s) - 1)) * 10 + DigitVal(s[Len(s)])

RECURSIVE DigitPrefix(_)
DigitPrefix(s) ==
  IF s = <<>> \/ ~sqlite3Isdigit(s[1]) THEN <<>>
  ELSE <<s[1]>> \o DigitPrefix(Tail(s))

(* sqlite3AtoF(z, &el, length, SQLITE_UTF8) on the first `length` bytes:   *)
(* > 0 for a number, 0 when no number starts the text, -1 when a number    *)
(* is followed by something else                                            *)
sqlite3AtoF(buf) ==
  LET d == DigitPrefix(buf)
  IN  IF d = <<>> THEN [rc |-> 0, el |-> 0]
      ELSE IF d = buf THEN [rc |-> 1, el |-> DecVal(d)]
      ELSE [rc |-> -1, el |-> DecVal(d)]

(* the double -> float conversion of elems[vecidx++] = el: exact on the    *)
(* integers below 2^24, the only values the model's literals denote        *)
DoubleToFloat(el) == el

ErrNotText == "invalid vector: not a text type"
ErrNoOpen == "invalid vector: doesn't start with ']':"
ErrTooBig == "float too big while parsing vector: %s..."
ErrNumber == "invalid number: %s..."
ErrTooLarge == "vector is larger than the maximum: (%d)"
ErrNoClose == "malformed vector, doesn't end with ']'"
ErrNull == "invalid vector: NULL"
ErrKind == "invalid vector: not a text or blob type"
ErrBlobLen == "invalid vector: blob length is not a multiple of the element size"

(* What a run of vectorParseText leaves behind.                            *)
(*   rc      the return value                                              *)
(*   v       the Vector                                                    *)
(*   errMsg  *pzErrMsg (the callers pass it in as 0)                       *)
(*   zErr    the text formatted into the local zErr buffer, "" if none     *)
(*   wBuf    the highest elBuf index written, -1 if none                   *)
(*   wVec    the highest elems index written, -1 if none                   *)
(*   seen    how many characters of the text were read                     *)
ParseResult(rc, v, errMsg, zErr, s) ==
  [rc |-> rc, v |-> v, errMsg |-> errMsg, zErr |-> zErr,
   wBuf |-> s.wBuf, wVec |-> s.wVec, seen |-> s.seen]

NoWrites == [wBuf |-> -1, wVec |-> -1, seen |-> 0]

(* elBuf[bufidx++] = this; the check that follows it *)
StoreChar(s, this) ==
  [s EXCEPT !.elBuf = IF s.bufidx < MAX_FLOAT_CHAR_SZ THEN Append(@, this) ELSE @,
            !.bufidx = @ + 1,
            !.wBuf = Max(@, s.bufidx)]

CharOverflows(s) == s.bufidx > MAX_FLOAT_CHAR_SZ

(* bufidx = 0; memset(elBuf, 0); elems[vecidx++] = el *)
StoreElem(s, el) ==
  [s EXCEPT !.bufidx = 0,
            !.elBuf = <<>>,
            !.elems = IF s.vecidx \in ElemIdx
                      THEN [@ EXCEPT ![s.vecidx] = Num(DoubleToFloat(el))] ELSE @,
            !.vecidx = @ + 1,
            !.wVec = Max(@, s.vecidx)]

(* the limit test letting a MAX_VECTOR_SZ-th element through *)
ElemOverflows_OffByOne(s) == s.vecidx > MAX_VECTOR_SZ

ElemOverflows(s) == s.vecidx >= MAX_VECTOR_SZ

(* the statements after the main loop, refusing a "]" that is not the     *)
(* last character of the text                                              *)
TextTail_RejectsTrailing(z, v, s0) ==
  LET a == sqlite3AtoF(s0.elBuf)
      s == IF s0.bufidx # 0 THEN StoreElem(s0, a.el) ELSE s0
      sc == [s EXCEPT !.seen = Max(@, s.i + 1)]
  IN  IF s0.bufidx # 0 /\ a.rc <= 0
      THEN ParseResult(-1, [v EXCEPT !.data = s0.elems], NullMsg, ErrNumber, s0)
      ELSE IF s0.bufidx # 0 /\ ElemOverflows(s)
      THEN ParseResult(-1, [v EXCEPT !.data = s.elems], NullMsg, ErrTooLarge, s)
      ELSE IF CharAt(z, s.i) # "]" \/ CharAt(z, s.i + 1) # "\\0"
      THEN ParseResult(-1, [v EXCEPT !.data = s.elems], NullMsg, ErrNoClose, sc)
      ELSE ParseResult(s.vecidx, [v EXCEPT !.data = s.elems, !.dims = s.vecidx],
                       NullMsg, "", sc)

(* the statements after the main loop without the final test for "]" *)
TextTail_NoCloseCheck(z, v, s0) ==
  LET a == sqlite3AtoF(s0.elBuf)
      s == IF s0.bufidx # 0 THEN StoreElem(s0, a.el) ELSE s0
      sc == [s EXCEPT !.seen = Max(@, s.i)]
  IN  IF s0.bufidx # 0 /\ a.rc <= 0
      THEN ParseResult(-1, [v EXCEPT !.data = s0.elems], NullMsg, ErrNumber, s0)
      ELSE IF s0.bufidx # 0 /\ ElemOverflows(s)
      THEN ParseResult(-1, [v EXCEPT !.data = s.elems], NullMsg, ErrTooLarge, s)
      ELSE ParseResult(s.vecidx, [v EXCEPT !.data = s.elems, !.dims = s.vecidx],
                       NullMsg, "", sc)

(* the statements after the main loop of vectorParseText *)
TextTail(z, v, s0) ==
  LET a == sqlite3AtoF(s0.elBuf)
      s == IF s0.bufidx # 0 THEN StoreElem(s0, a.el) ELSE s0
      sc == [s EXCEPT !.seen = Max(@, s.i)]
  IN  IF s0.bufidx # 0 /\ a.rc <= 0
      THEN ParseResult(-1, [v EXCEPT !.data = s0.elems], NullMsg, ErrNumber, s0)
      ELSE IF s0.bufidx # 0 /\ ElemOverflows(s)
      THEN ParseResult(-1, [v EXCEPT !.data = s.elems], NullMsg, ErrTooLarge, s)
      ELSE IF CharAt(z, s.i) # "]"
      THEN ParseResult(-1, [v EXCEPT !.data = s.elems], NullMsg, ErrNoClose, sc)
      ELSE ParseResult(s.vecidx, [v EXCEPT !.data = s.elems, !.dims = s.vecidx],
                       NullMsg, "", sc)

(* the main loop of vectorParseText, s.i the 1-based position of zStr *)
RECURSIVE TextLoop(_, _, _)
TextLoop(z, v, s) ==
  LET this == CharAt(z, s.i)
      sr == [s EXCEPT !.seen = Max(@, s.i)]
      sn == [sr EXCEPT !.i = @ + 1]
  IN  IF this # "\\0" /\ this # "]"
      THEN IF sqlite3Isspace(this)
           THEN TextLoop(z, v, sn)
           ELSE IF this # "," /\ this # "]"
           THEN LET sw == StoreChar(sn, this)
                IN  IF CharOverflows(sw)
                    THEN ParseResult(-1, [v EXCEPT !.data = sw.elems], NullMsg, ErrTooBig, sw)
                    ELSE TextLoop(z, v, sw)
           ELSE LET a == sqlite3AtoF(sn.elBuf)
                    se == StoreElem(sn, a.el)
                IN  IF a.rc <= 0
                    THEN ParseResult(-1, [v EXCEPT !.data = sn.elems], NullMsg, ErrNumber, sn)
                    ELSE IF ElemOverflows(se)
                    THEN ParseResult(-1, [v EXCEPT !.data = se.elems], NullMsg, ErrTooLarge, se)
                    ELSE TextLoop(z, v, se)
      ELSE TextTail(z, v, sr)

(* no blanks skipped before the test for "[" *)
SkipSpaces_None(z, i) == i

(* the loop that skips leading whitespace: zStr++ while sqlite3Isspace *)
RECURSIVE SkipSpaces(_, _)
SkipSpaces(z, i) == IF sqlite3Isspace(CharAt(z, i)) THEN SkipSpaces(z, i + 1) ELSE i

vectorParseText(arg, v) ==
  IF arg.type # "text"
  THEN ParseResult(-1, v, ErrNotText, "", NoWrites)
  ELSE IF arg.zNull
  THEN ParseResult(0, v, NullMsg, "", NoWrites)
  ELSE LET i == SkipSpaces(arg.z, 1)
           s == [i |-> i + 1, bufidx |-> 0, elBuf |-> <<>>, vecidx |-> 0,
                 elems |-> v.data, wBuf |-> -1, wVec |-> -1, seen |-> i]
       IN  IF CharAt(arg.z, i) # "["
           THEN ParseResult(-1, v, NullMsg, ErrNoOpen, [NoWrites EXCEPT !.seen = i])
           ELSE TextLoop(arg.z, v, s)

(* vectorF3ParseBlob (vectorfloat32.c): the blob is the raw element array; *)
(* a length that is no multiple of the element size is refused.            *)
vectorParseBlob(arg, v) ==
  IF arg.n % 4 # 0
  THEN ParseResult(-1, v, ErrBlobLen, "", NoWrites)
  ELSE LET n == arg.n \div 4
       IN  ParseResult(n,
             [v EXCEPT !.dims = n,
                       !.data = [i \in ElemIdx |-> IF i < n THEN BlobElem(i) ELSE @[i]]],
             NullMsg, "", [NoWrites EXCEPT !.wVec = n - 1])

vectorParse(arg, v) ==
  CASE arg.type = "null" -> ParseResult(-1, v, ErrNull, "", NoWrites)
    [] arg.type = "blob" -> vectorParseBlob(arg, v)
    [] arg.type = "text" -> vectorParseText(arg, v)
    [] OTHER -> ParseResult(-1, v, ErrKind, "", NoWrites)

(* A write at elBuf[MAX_FLOAT_CHAR_SZ] is outside the array: the byte lands *)
(* in whatever the build placed after it.  The call then either returns as *)
(* written or the process is stopped (stack protector).                    *)
WroteOutsideElBuf(r) == r.wBuf >= MAX_FLOAT_CHAR_SZ
Endings(r) == IF WroteOutsideElBuf(r) THEN {"returned", "aborted"} ELSE {"returned"}

NoParse == ParseResult(0, AllocatedVector, NullMsg, "", NoWrites)

vectorParseCall ==
  /\ pPc = "ready"
  /\ LET r == vectorParse(pIn, AllocatedVector)
     IN  /\ pOut' = r
         /\ \E e \in Endings(r) : pPc' = e
  /\ UNCHANGED <<pIn, createVars, cursorVars, funcVars, hostEv, blobVars>>

---------------------------------------------------------------------------
(* SQL functions: vector(X), vector_extract(X), vector_distance_cos(X, Y)  *)

(* Every result vectorParse can give on a freshly allocated Vector, over   *)
(* all arguments of SqlValues: the functions below draw an argument by     *)
(* drawing what it decodes to.                                             *)
ParseOutcomes == {vectorParse(arg, AllocatedVector) : arg \in SqlValues}

(* the first dims elements of v *)
ElemsOf(v) == [i \in 1..v.dims |-> v.data[i - 1]]

(* vectorF32Serialize: sqlite3_result_blob of the packed elements *)
vectorSerialize(v) == [kind |-> "blob", n |-> v.dims * 4, elems |-> ElemsOf(v)]

(* vectorF32Deserialize: sqlite3_result_text of the bracketed literal *)
vectorDeserialize(v) == [kind |-> "text", elems |-> ElemsOf(v)]

(* sqlite3_result_double(context, vectorDistanceCos(v1, v2)) *)
ResultDistance(v1, v2) == [kind |-> "double", of |-> <<ElemsOf(v1), ElemsOf(v2)>>]

(* sqlite3_result_error(context, zErrMsg, -1) *)
ResultError(msg) == [kind |-> "error", msg |-> msg]

ResultNoMem == [kind |-> "nomem"]
NoResult == [kind |-> "none"]

ErrSameLength == "vectors must have the same length"

(* vectorContextAlloc: p is the new object's place in fVecs, 0 when        *)
(* contextMalloc failed                                                    *)
vectorContextAlloc(vecs, ok) ==
  IF ok THEN [p |-> Len(vecs) + 1, vecs |-> Append(vecs, [freed |-> 0])]
  ELSE [p |-> 0, vecs |-> vecs]

HasFlag(flags, bit) == (flags \div bit) % 2 = 1

(* vectorFree with the test of VECTOR_FLAGS_STATIC inverted *)
vectorFree_InvertedFlag(vecs, p, flags) ==
  IF p = 0 THEN vecs
  ELSE IF ~HasFlag(flags, VECTOR_FLAGS_STATIC) THEN vecs
  ELSE [vecs EXCEPT ![p].freed = @ + 1]

(* vectorFree(p), flags being p->flags *)
vectorFree(vecs, p, flags) ==
  IF p = 0 THEN vecs
  ELSE IF HasFlag(flags, VECTOR_FLAGS_STATIC) THEN vecs
  ELSE [vecs EXCEPT ![p].freed = @ + 1]

Aborted(op, args, vecs) ==
  [pc |-> "aborted", call |-> [op |-> op, args |-> args], vecs |-> vecs, res |-> NoResult]

Returned(op, args, vecs, res) ==
  [pc |-> "returned", call |-> [op |-> op, args |-> args], vecs |-> vecs, res |-> res]

(* vectorFunc and vectorExtractFunc differ in the result they set: encode  *)
(* is vectorSerialize or vectorDeserialize.  r is what argv[0] decodes to, *)
(* ending how the call to vectorParse ended.                               *)
OneArgFunc(op, allocOk, r, ending) ==
  LET a == vectorContextAlloc(<<>>, allocOk)
      res == IF op = "vector" THEN vectorSerialize(r.v) ELSE vectorDeserialize(r.v)
  IN  IF a.p = 0 THEN Returned(op, <<>>, a.vecs, ResultNoMem)
      ELSE IF ending = "aborted" THEN Aborted(op, <<r>>, a.vecs)
      ELSE IF r.rc < 0
      THEN Returned(op, <<r>>, vectorFree(a.vecs, a.p, r.v.flags), ResultError(r.errMsg))
      ELSE Returned(op, <<r>>, vectorFree(a.vecs, a.p, r.v.flags), res)

(* vectorDistanceCosFunc *)
(* vectorDistanceCosFunc without the comparison of the two dims *)
DistanceCosFunc_NoDimsCheck(allocOk1, allocOk2, r1, e1, r2, e2) ==
  LET op == "vector_distance_cos"
      a1 == vectorContextAlloc(<<>>, allocOk1)
      a2 == vectorContextAlloc(a1.vecs, allocOk2)
      free2(flags1, flags2) ==
        vectorFree(vectorFree(a2.vecs, a2.p, flags2), a1.p, flags1)
  IN  IF a1.p = 0 THEN Returned(op, <<>>, a1.vecs, ResultNoMem)
      ELSE IF a2.p = 0
      THEN Returned(op, <<>>, vectorFree(a2.vecs, a1.p, AllocatedVector.flags), ResultNoMem)
      ELSE IF e1 = "aborted" THEN Aborted(op, <<r1>>, a2.vecs)
      ELSE IF r1.rc < 0
      THEN Returned(op, <<r1>>, free2(r1.v.flags, AllocatedVector.flags),
                    ResultError(r1.errMsg))
      ELSE IF e2 = "aborted" THEN Aborted(op, <<r1, r2>>, a2.vecs)
      ELSE IF r2.rc < 0
      THEN Returned(op, <<r1, r2>>, free2(r1.v.flags, r2.v.flags), ResultError(r2.errMsg))
      ELSE Returned(op, <<r1, r2>>, free2(r1.v.flags, r2.v.flags),
                    ResultDistance(r1.v, r2.v))

DistanceCosFunc(allocOk1, allocOk2, r1, e1, r2, e2) ==
  LET op == "vector_distance_cos"
      a1 == vectorContextAlloc(<<>>, allocOk1)
      a2 == vectorContextAlloc(a1.vecs, allocOk2)
      free2(flags1, flags2) ==
        vectorFree(vectorFree(a2.vecs, a2.p, flags2), a1.p, flags1)
  IN  IF a1.p = 0 THEN Returned(op, <<>>, a1.vecs, ResultNoMem)
      ELSE IF a2.p = 0
      THEN Returned(op, <<>>, vectorFree(a2.vecs, a1.p, AllocatedVector.flags), ResultNoMem)
      ELSE IF e1 = "aborted" THEN Aborted(op, <<r1>>, a2.vecs)
      ELSE IF r1.rc < 0
      THEN Returned(op, <<r1>>, free2(r1.v.flags, AllocatedVector.flags),
                    ResultError(r1.errMsg))
      ELSE IF e2 = "aborted" THEN Aborted(op, <<r1, r2>>, a2.vecs)
      ELSE IF r2.rc < 0
      THEN Returned(op, <<r1, r2>>, free2(r1.v.flags, r2.v.flags), ResultError(r2.errMsg))
      ELSE IF r1.v.dims # r2.v.dims
      THEN Returned(op, <<r1, r2>>, free2(r1.v.flags, r2.v.flags),
                    ResultError(ErrSameLength))
      ELSE Returned(op, <<r1, r2>>, free2(r1.v.flags, r2.v.flags),
                    ResultDistance(r1.v, r2.v))

FuncReturns(o) ==
  /\ fPc' = o.pc
  /\ fCall' = o.call
  /\ fVecs' = o.vecs
  /\ fRes' = o.res
  /\ UNCHANGED <<createVars, cursorVars, parseVars, hostEv, blobVars>>

vectorFunc ==
  /\ fPc = "idle"
  /\ \E allocOk \in BOOLEAN, r \in ParseOutcomes :
       \E e \in Endings(r) : FuncReturns(OneArgFunc("vector", allocOk, r, e))

vectorExtractFunc ==
  /\ fPc = "idle"
  /\ \E allocOk \in BOOLEAN, r \in ParseOutcomes :
       \E e \in Endings(r) : FuncReturns(OneArgFunc("vector_extract", allocOk, r, e))

vectorDistanceCosFunc ==
  /\ fPc = "idle"
  /\ \E allocOk1 \in BOOLEAN, allocOk2 \in BOOLEAN, r1 \in ParseOutcomes, r2 \in ParseOutcomes :
       \E e1 \in Endings(r1), e2 \in Endings(r2) :
         FuncReturns(DistanceCosFunc(allocOk1, allocOk2, r1, e1, r2, e2))

---------------------------------------------------------------------------
(* vectorSerializeToBlob and vectorDeserializeFromBlob                     *)
(*                                                                         *)
(* A float is its 32-bit pattern, a blob a sequence of bytes.  The Vector  *)
(* here carries its elements as a sequence of dims patterns.               *)

(* 1.0f, a NaN with a payload, the smallest denormal *)
F32Bits == {1065353216, 2143289345, 1}

F32Vectors ==
  UNION {[type : {VECTOR_TYPE_FLOAT32}, flags : {0}, dims : {n}, data : [1..n -> F32Bits]]
           : n \in 0..MAX_VECTOR_SZ}

BlobSizes == 0..(MAX_VECTOR_SZ * 4 + 1)

(* sizeof(float) * dims *)
vectorDataSize(dims) == dims * 4

(* the four bytes of one element, least significant first, read from the   *)
(* most significant end *)
deserializeF32_BigEndian(b) == b[4] + 256 * b[3] + 65536 * b[2] + 16777216 * b[1]

(* the four bytes of one element, least significant first *)
serializeF32(x) ==
  <<x % 256, (x \div 256) % 256, (x \div 65536) % 256, (x \div 16777216) % 256>>

deserializeF32(b) == b[1] + 256 * b[2] + 65536 * b[3] + 16777216 * b[4]

RECURSIVE F32Pack(_)
F32Pack(data) ==
  IF data = <<>> THEN <<>> ELSE serializeF32(Head(data)) \o F32Pack(Tail(data))

(* vectorF32SerializeToBlob: dims * 4 raw bytes into the caller's buffer,  *)
(* 0 and nothing written when the buffer is smaller than that              *)
vectorF32SerializeToBlob(p, blobSize) ==
  IF blobSize < vectorDataSize(p.dims)
  THEN [ret |-> 0, bytes |-> <<>>]
  ELSE [ret |-> vectorDataSize(p.dims), bytes |-> F32Pack(SubSeq(p.data, 1, p.dims))]

(* vectorF32DeserializeFromBlob: dims is the length over the element size, *)
(* the bytes are taken as the packed elements                              *)
vectorF32DeserializeFromBlob(p, blob, blobSize) ==
  LET n == blobSize \div 4
  IN  [ret |-> vectorDataSize(n),
       v |-> [p EXCEPT !.dims = n,
                       !.data = [i \in 1..n |-> deserializeF32(SubSeq(blob, 4 * i - 3, 4 * i))]]]

vectorSerializeToBlob(p, blobSize) ==
  IF p.type = VECTOR_TYPE_FLOAT32
  THEN vectorF32SerializeToBlob(p, blobSize)
  ELSE [ret |-> 0, bytes |-> <<>>]

vectorDeserializeFromBlob(p, blob, blobSize) ==
  IF p.type = VECTOR_TYPE_FLOAT32
  THEN vectorF32DeserializeFromBlob(p, blob, blobSize)
  ELSE [ret |-> 0, v |-> p]

EmptyF32Vector == [type |-> VECTOR_TYPE_FLOAT32, flags |-> 0, dims |-> 0, data |-> <<>>]
NoBlob == [size |-> 0, ret |-> 0, bytes |-> <<>>]
NoDecode == [ret |-> 0, v |-> EmptyF32Vector]

(* a caller encodes bVec into a buffer of blobSize bytes *)
vectorSerializeToBlobCall ==
  /\ bPc = "idle"
  /\ \E blobSize \in BlobSizes :
       LET r == vectorSerializeToBlob(bVec, blobSize)
       IN  bBlob' = [size |-> blobSize, ret |-> r.ret, bytes |-> r.bytes]
  /\ bPc' = "encoded"
  /\ UNCHANGED <<bVec, bDec, createVars, cursorVars, parseVars, funcVars, hostEv>>

(* a caller decodes the bytes that were written into an empty Vector *)
vectorDeserializeFromBlobCall ==
  /\ bPc = "encoded"
  /\ bDec' = vectorDeserializeFromBlob(EmptyF32Vector, bBlob.bytes, bBlob.ret)
  /\ bPc' = "decoded"
  /\ UNCHANGED <<bVec, bBlob, createVars, cursorVars, parseVars, funcVars, hostEv>>

---------------------------------------------------------------------------
(* Initial states and specifications *)

InitCreate ==
  /\ crPc = "idle"
  /\ crIn = NoCreateInput
  /\ crRet = 0
  /\ crErr = ""
  /\ shadowTables = {}

InitCursor ==
  /\ heapObjs = [o \in ObjIds |-> FreshObj]
  /\ cursors = [c \in Cursors |-> FreshCursor]
  /\ handles = [h \in HandleIds |-> FreshHandle]

InitFunc ==
  /\ fPc = "idle"
  /\ fCall = [op |-> "none", args |-> <<>>]
  /\ fVecs = <<>>
  /\ fRes = NoResult

InitRest ==
  /\ InitCreate
  /\ InitCursor
  /\ InitFunc
  /\ bPc = "idle"
  /\ bBlob = NoBlob
  /\ bDec = NoDecode
  /\ hostEv = NoEvent
  /\ pOut = NoParse

Init ==
  /\ InitRest
  /\ pPc = "ready"
  /\ pIn = [type |-> "null"]
  /\ bVec = EmptyF32Vector

InitParse ==
  /\ InitRest
  /\ pPc = "ready"
  /\ pIn \in SqlValues
  /\ bVec = EmptyF32Vector

InitBlob ==
  /\ InitRest
  /\ pPc = "ready"
  /\ pIn = [type |-> "null"]
  /\ bVec \in F32Vectors

NextCreate == vectorIndexCreate

NextCursor ==
  \/ vectorIndexCursorInit
  \/ vectorIndexInsert
  \/ vectorIndexCursorClose

NextParse == vectorParseCall

NextFunc ==
  \/ vectorFunc
  \/ vectorExtractFunc
  \/ vectorDistanceCosFunc

NextBlob ==
  \/ vectorSerializeToBlobCall
  \/ vectorDeserializeFromBlobCall

Next == NextCreate \/ NextCursor \/ NextParse \/ NextFunc \/ NextBlob

SpecCreate == Init /\ [][NextCreate]_vars
SpecCursor == Init /\ [][NextCursor]_vars
SpecParse == InitParse /\ [][NextParse]_vars
SpecFunc == Init /\ [][NextFunc]_vars
SpecBlob == InitBlob /\ [][NextBlob]_vars
Spec == Init /\ [][Next]_vars

---------------------------------------------------------------------------
(* Properties of vectorIndexCreate                                         *)

IsCosineToken(t) == t \in {"diskann_cosine_ops", "DISKANN_COSINE_OPS"}

(* Create failed with the named error: -1 and the message in pParse *)
FailsWith(msg) == crRet = -1 /\ crErr = msg

NothingProvisioned == shadowTables = {} /\ hostEv.ann = <<>>

(* C1: a Create whose distance-operator token (the first identifier of the *)
(* USING list) is not the cosine token fails with UnknownIndexMethod, and  *)
(* when it returns no shadow table exists and the ANN engine's create has  *)
(* not been called.                                                        *)
C1_UnknownTokenFailsUnprovisioned ==
  (crPc = "done" /\ Len(crIn.pUsing) >= 1 /\ ~IsCosineToken(crIn.pUsing[1]))
    => (FailsWith(ErrUnknownMethod) /\ NothingProvisioned)

C1_Witness ==
  /\ crPc = "done"
  /\ crIn.pUsing = <<"euclidean_ops">>
  /\ crIn.nKeyCol = 1
  /\ crIn.zType = FLOAT32_LPAREN \o <<"3", ")">>
  /\ crIn.execRc = SQLITE_OK
  /\ FailsWith(ErrUnknownMethod)

(* C2: Create passes the distance-operator validation only when exactly    *)
(* one token is supplied and it is cosine: a Create whose token list is    *)
(* empty, or holds a token other than cosine at any position, fails with   *)
(* UnknownIndexMethod.                                                     *)
C2_OnlySingleCosinePasses ==
  (crPc = "done" /\ (Len(crIn.pUsing) = 0
                       \/ \E i \in 1..Len(crIn.pUsing) : ~IsCosineToken(crIn.pUsing[i])))
    => FailsWith(ErrUnknownMethod)

(* C3: whenever Create fails with UnsupportedIndexShape or                 *)
(* InvalidVectorType, no shadow table has been provisioned and the ANN     *)
(* engine's create has not been called.                                    *)
C3_ShapeAndTypeFailuresUnprovisioned ==
  (crPc = "done" /\ (FailsWith(ErrSingleColumn) \/ FailsWith(ErrInvalidType)))
    => NothingProvisioned

IsDigits(s) == s # <<>> /\ \A i \in 1..Len(s) : sqlite3Isdigit(s[i])

(* z reads FLOAT32(<N>) up to its first ")": the prefix in either case,    *)
(* then one or more digits, then ")"                                       *)
ClosingParen(z) == CHOOSE k \in 9..Len(z) : z[k] = ")" /\ \A j \in 9..(k - 1) : z[j] # ")"
MatchesFloat32N(z) ==
  /\ Len(z) >= 10
  /\ SubSeq(z, 1, 8) \in {FLOAT32_LPAREN, <<"f", "l", "o", "a", "t", "3", "2", "(">>}
  /\ \E k \in 9..Len(z) : z[k] = ")"
  /\ IsDigits(SubSeq(z, 9, ClosingParen(z) - 1))
DeclaredN(z) == DecVal(SubSeq(z, 9, ClosingParen(z) - 1))

(* C7: Create reaches the ANN engine's create only if the declared type    *)
(* matches FLOAT32(<N>), and then passes N as the dimension count; every   *)
(* other declared type, once the operator and the column count have been   *)
(* accepted, fails with InvalidVectorType without calling the ANN engine.  *)
C7_OnlyFloat32NReachesEngine ==
  crPc = "done" =>
    /\ hostEv.ann # <<>> =>
         (MatchesFloat32N(crIn.zType) /\ hostEv.ann[1].nDims = DeclaredN(crIn.zType))
    /\ (~MatchesFloat32N(crIn.zType) /\ ScanUsing(crIn.pUsing).ok
          /\ crIn.execRc = SQLITE_OK /\ crIn.nKeyCol = 1)
         => (FailsWith(ErrInvalidType) /\ hostEv.ann = <<>>)

---------------------------------------------------------------------------
(* Properties of the cursor operations                                     *)

(* C4: for create, open and insert, an event that calls the ANN engine     *)
(* calls it once and returns to the host the status the engine returned.   *)
C4_EngineStatusReturned ==
  hostEv.op \in {"create", "open", "insert"} =>
    /\ Len(hostEv.ann) <= 1
    /\ Len(hostEv.ann) = 1 => hostEv.ret = hostEv.ann[1].rc

(* the handle stored on cursor c, NULL when its slot is empty *)
HandleOn(c) ==
  IF cursors[c].pVecIdx = NULL THEN NULL ELSE heapObjs[cursors[c].pVecIdx].index

(* C8: with the host closing each successfully opened cursor once and no   *)
(* other, every handle a successful open returned is stored on the cursor  *)
(* that opened it and on no other, it has been passed to the engine's      *)
(* close once if that cursor is closed and never otherwise, and Insert and *)
(* Close hand the engine the handle their cursor's Open obtained.          *)
C8_HandleOwnedAndClosedOnce ==
  /\ \A h \in HandleIds : handles[h].st # "unissued" =>
       /\ handles[h].owner \in Cursors
       /\ HandleOn(handles[h].owner) = h
       /\ \A c \in Cursors \ {handles[h].owner} : HandleOn(c) # h
       /\ handles[h].closes = IF cursors[handles[h].owner].life = "closed" THEN 1 ELSE 0
  /\ \A h \in HandleIds : handles[h].st = "unissued" => handles[h].closes = 0
  /\ hostEv.op \in {"insert", "close"} =>
       /\ hostEv.ann[1].handle \in HandleIds
       /\ handles[hostEv.ann[1].handle].owner = hostEv.cursor

C8_Witness ==
  /\ cursors["c1"].life = "closed"
  /\ cursors["c2"].life = "open"
  /\ hostEv.op = "insert"
  /\ hostEv.cursor = "c2"
  /\ \E h \in HandleIds : handles[h].owner = "c1" /\ handles[h].closes = 1

(* C9: Open returns success only if the engine's open returned success,    *)
(* and the cursor then holds the returned handle; if the engine's open     *)
(* fails, Open returns that status and the cursor's slot is as it was,     *)
(* empty.                                                                  *)
C9_OpenStoresHandleOnlyOnSuccess ==
  hostEv.op = "open" =>
    /\ hostEv.ret = SQLITE_OK =>
         /\ Len(hostEv.ann) = 1
         /\ hostEv.ann[1].rc = SQLITE_OK
         /\ hostEv.ann[1].handle # NULL
         /\ HandleOn(hostEv.cursor) = hostEv.ann[1].handle
    /\ (Len(hostEv.ann) = 1 /\ hostEv.ann[1].rc # SQLITE_OK) =>
         /\ hostEv.ret = hostEv.ann[1].rc
         /\ cursors[hostEv.cursor].pVecIdx = hostEv.slotBefore
         /\ cursors[hostEv.cursor].pVecIdx = NULL

C9_Witness ==
  /\ hostEv.op = "open"
  /\ hostEv.cursor = "c2"
  /\ hostEv.ret = 1
  /\ cursors["c1"].life = "open"

(* C19: when vectorIndexCursorInit has returned, every VectorIdxCursor it *)
(* allocated is stored on a cursor or has been freed; once every cursor    *)
(* that was opened is closed, no VectorIdxCursor remains allocated.        *)
C19_CursorObjectStoredOrFreed ==
  /\ \A o \in ObjIds : heapObjs[o].st = "live" =>
       \E c \in Cursors : cursors[c].life = "open" /\ cursors[c].pVecIdx = o
  /\ (\A c \in Cursors : cursors[c].life # "open") =>
       \A o \in ObjIds : heapObjs[o].st # "live"

---------------------------------------------------------------------------
(* Properties of vectorParse                                               *)

(* C5: every character written to the element scratch buffer is written    *)
(* at an index below its capacity; an over-long element fails before any   *)
(* write at or past that index.                                            *)
C5_ScratchWritesInBounds ==
  pPc # "ready" => pOut.wBuf < MAX_FLOAT_CHAR_SZ

(* C6: whenever vectorParse fails, the error-message output handed back    *)
(* to the caller has been set to a message.                                *)
C6_FailureSetsMessage ==
  (pPc = "returned" /\ pOut.rc < 0) => pOut.errMsg # NullMsg

(* The literal grammar of the codec: blanks, "[", elements separated by    *)
(* ",", "]", blanks; an element is a run of digits that fits the scratch   *)
(* buffer.  LiteralCount is the number of elements, -1 when z is not such  *)
(* a literal.                                                              *)
RECURSIVE LiteralScan(_, _, _, _, _)
LiteralScan(z, i, mode, n, len) ==
  LET ch == CharAt(z, i)
      blank == ch = " "
      digit == sqlite3Isdigit(ch)
  IN  CASE mode = "pre" ->
             IF blank THEN LiteralScan(z, i + 1, "pre", n, 0)
             ELSE IF ch = "[" THEN LiteralScan(z, i + 1, "open", n, 0)
             ELSE -1
        [] mode = "open" ->
             IF blank THEN LiteralScan(z, i + 1, "open", n, 0)
             ELSE IF ch = "]" THEN LiteralScan(z, i + 1, "end", n, 0)
             ELSE IF digit THEN LiteralScan(z, i + 1, "elem", n + 1, 1)
             ELSE -1
        [] mode = "elem" ->
             IF digit THEN (IF len + 1 > MAX_FLOAT_CHAR_SZ THEN -1
                            ELSE LiteralScan(z, i + 1, "elem", n, len + 1))
             ELSE IF blank THEN LiteralScan(z, i + 1, "post", n, 0)
             ELSE IF ch = "," THEN LiteralScan(z, i + 1, "comma", n, 0)
             ELSE IF ch = "]" THEN LiteralScan(z, i + 1, "end", n, 0)
             ELSE -1
        [] mode = "post" ->
             IF blank THEN LiteralScan(z, i + 1, "post", n, 0)
             ELSE IF ch = "," THEN LiteralScan(z, i + 1, "comma", n, 0)
             ELSE IF ch = "]" THEN LiteralScan(z, i + 1, "end", n, 0)
             ELSE -1
        [] mode = "comma" ->
             IF blank THEN LiteralScan(z, i + 1, "comma", n, 0)
             ELSE IF digit THEN LiteralScan(z, i + 1, "elem", n + 1, 1)
             ELSE -1
        [] mode = "end" ->
             IF blank THEN LiteralScan(z, i + 1, "end", n, 0)
             ELSE IF ch = "\\0" THEN n
             ELSE -1

LiteralCount(z) == LiteralScan(z, 1, "pre", 0, 0)

IsText(arg) == arg.type = "text" /\ ~arg.zNull

(* C11: decoding a well-formed literal of n numeric elements succeeds with *)
(* dimension count n when n < MAX_VECTOR_SZ ("[]" giving 0) and fails with *)
(* TooManyDimensions when n reaches MAX_VECTOR_SZ.                         *)
C11_LiteralGivesItsCount ==
  (pPc # "ready" /\ IsText(pIn) /\ LiteralCount(pIn.z) >= 0) =>
    IF LiteralCount(pIn.z) < MAX_VECTOR_SZ
    THEN pPc = "returned" /\ pOut.rc = LiteralCount(pIn.z)
                          /\ pOut.v.dims = LiteralCount(pIn.z)
    ELSE pPc = "returned" /\ pOut.rc = -1 /\ pOut.zErr = ErrTooLarge

C11_Witness ==
  /\ pPc = "returned"
  /\ IsText(pIn)
  /\ pIn.z = <<"[", "1", ",", "1", "]">>
  /\ LiteralCount(pIn.z) = MAX_VECTOR_SZ
  /\ pOut.zErr = ErrTooLarge

(* the first character of z that is not a blank, NUL when there is none *)
FirstNonBlank(z) ==
  LET idx == {i \in 1..Len(z) : z[i] # " "}
  IN  IF idx = {} THEN "\\0" ELSE z[CHOOSE i \in idx : \A j \in idx : i <= j]

HasClose(z) == \E i \in 1..Len(z) : z[i] = "]"

FailsAs(zErr) == pOut.rc = -1 /\ pOut.zErr = zErr

(* C12 as stated: a text whose first non-blank character is not "[" fails  *)
(* with MalformedLiteral, and a text that starts with "[" and has no "]"   *)
(* fails with UnterminatedLiteral.                                         *)
C12_MissingBracketErrors ==
  (pPc = "returned" /\ IsText(pIn)) =>
    /\ FirstNonBlank(pIn.z) # "[" => FailsAs(ErrNoOpen)
    /\ (FirstNonBlank(pIn.z) = "[" /\ ~HasClose(pIn.z)) => FailsAs(ErrNoClose)

(* C12 as amended: a text whose first non-blank character is not "[" fails *)
(* with MalformedLiteral; a text that starts with "[" and has no "]"       *)
(* fails, with UnterminatedLiteral when it is a valid literal lacking only *)
(* its "]", and otherwise with UnterminatedLiteral or with the element     *)
(* error (InvalidNumber, ElementTooLong, TooManyDimensions) met first.     *)
C12_MissingBracketFails ==
  (pPc = "returned" /\ IsText(pIn)) =>
    /\ FirstNonBlank(pIn.z) # "[" => FailsAs(ErrNoOpen)
    /\ (FirstNonBlank(pIn.z) = "[" /\ ~HasClose(pIn.z)) =>
         /\ pOut.rc = -1
         /\ pOut.zErr \in {ErrNoClose, ErrNumber, ErrTooBig, ErrTooLarge}
         /\ LiteralCount(pIn.z \o <<"]">>) \in 0..(MAX_VECTOR_SZ - 1)
              => pOut.zErr = ErrNoClose

C12_Witness ==
  /\ pPc = "returned"
  /\ IsText(pIn)
  /\ pIn.z = <<" ", "[", "1", "1">>
  /\ FailsAs(ErrNoClose)

(* C15: while a text value is decoded into a vector allocated with        *)
(* MAX_VECTOR_SZ elements, every element is stored at an index below       *)
(* MAX_VECTOR_SZ, and after a successful decode dims < MAX_VECTOR_SZ.      *)
C15_ElementsAndDimsBelowMax ==
  (pPc # "ready" /\ pIn.type = "text") =>
    /\ pOut.wVec < MAX_VECTOR_SZ
    /\ (pPc = "returned" /\ pOut.rc >= 0) => pOut.v.dims < MAX_VECTOR_SZ

(* C18: whenever decoding a text value returns a count >= 0, the vector's  *)
(* dims is that count, also when the text pointer of the value is null.    *)
C18_ReturnedCountIsDims ==
  (pPc = "returned" /\ pIn.type = "text" /\ pOut.rc >= 0) => pOut.v.dims = pOut.rc

(* z without its blanks *)
Strip(z) == SelectSeq(z, LAMBDA ch : ~sqlite3Isspace(ch))

(* C17: blanks do not change what decoding a text gives: with blanks       *)
(* before the "[", between tokens or inside an element, the return value,  *)
(* the dims, the elements and the error are those of the text without      *)
(* them.                                                                   *)
C17_BlanksChangeNothing ==
  (pPc # "ready" /\ IsText(pIn)) =>
    LET r == vectorParse([pIn EXCEPT !.z = Strip(pIn.z)], AllocatedVector)
    IN  /\ pOut.rc = r.rc
        /\ pOut.v = r.v
        /\ pOut.zErr = r.zErr

C17_Witness ==
  /\ pPc = "returned"
  /\ IsText(pIn)
  /\ pIn.z = <<"[", "1", " ", "1", "]">>
  /\ pOut.rc = 1
  /\ pOut.v.dims = 1

(* the position of the first "]" of z *)
FirstClose(z) == CHOOSE k \in 1..Len(z) : z[k] = "]" /\ \A j \in 1..(k - 1) : z[j] # "]"

(* C20: decoding stops at the first "]": a text gives what its prefix up   *)
(* to and including the first "]" gives (return value, dims, elements,     *)
(* error), so two texts that agree up to there give the same; no           *)
(* character after that "]" is read.                                       *)
C20_StopsAtFirstClose ==
  (pPc # "ready" /\ IsText(pIn) /\ HasClose(pIn.z)) =>
    LET k == FirstClose(pIn.z)
        r == vectorParse([pIn EXCEPT !.z = SubSeq(pIn.z, 1, k)], AllocatedVector)
    IN  /\ pOut.rc = r.rc
        /\ pOut.v = r.v
        /\ pOut.zErr = r.zErr
        /\ pOut.seen <= k

C20_Witness ==
  /\ pPc = "returned"
  /\ IsText(pIn)
  /\ pIn.z = <<"[", "1", "]", "x", "]">>
  /\ pOut.rc = 1
  /\ pOut.seen = 3

---------------------------------------------------------------------------
(* Properties of the SQL functions                                         *)

(* C10: when any of the three SQL functions returns, on whatever path,     *)
(* every Vector it allocated has been released exactly once.               *)
C10_EveryVectorFreedOnce ==
  fPc = "returned" => \A i \in 1..Len(fVecs) : fVecs[i].freed = 1

C10_Witness ==
  /\ fPc = "returned"
  /\ fCall.op = "vector_distance_cos"
  /\ Len(fVecs) = 2
  /\ fRes = ResultError(ErrSameLength)


BothDecoded ==
  /\ Len(fCall.args) = 2
  /\ fCall.args[1].rc >= 0
  /\ fCall.args[2].rc >= 0

(* C13: vector_distance_cos on two successfully decoded vectors whose      *)
(* dims differ returns the "same length" error and computes no distance;   *)
(* a distance is computed only when both arguments decoded successfully    *)
(* and their dims are equal.                                               *)
C13_MismatchNeverComputes ==
  (fPc = "returned" /\ fCall.op = "vector_distance_cos") =>
    /\ (BothDecoded /\ fCall.args[1].v.dims # fCall.args[2].v.dims)
         => fRes = ResultError(ErrSameLength)
    /\ fRes.kind = "double"
         => (BothDecoded /\ fCall.args[1].v.dims = fCall.args[2].v.dims)

C13_Witness ==
  /\ fPc = "returned"
  /\ fCall.op = "vector_distance_cos"
  /\ BothDecoded
  /\ fCall.args[1].v.dims = 1
  /\ fCall.args[2].v.dims = 0
  /\ fRes = ResultError(ErrSameLength)


(* C16: a vector flagged VECTOR_FLAGS_STATIC is never freed.  The vector   *)
(* vectorIndexInsert hands to the ANN engine is such a vector, its data    *)
(* the row's blob itself and its dims the blob's length in elements; the   *)
(* row identifier is forwarded with it; vectorFree releases nothing of it. *)
C16_InsertBorrowsBlob ==
  hostEv.op = "insert" =>
    /\ Len(hostEv.ann) = 1
    /\ LET call == hostEv.ann[1]
           one == <<[freed |-> 0]>>
       IN  /\ call.fn = "insert"
           /\ HasFlag(call.v.flags, VECTOR_FLAGS_STATIC)
           /\ call.v.data = hostEv.in.blob.addr
           /\ call.v.dims * 4 = hostEv.in.blob.n
           /\ call.rowid = hostEv.in.rowid
           /\ vectorFree(one, 1, call.v.flags) = one

C16_Witness ==
  /\ hostEv.op = "insert"
  /\ hostEv.in.blob.n = 8
  /\ hostEv.ann[1].v.dims = 2
  /\ hostEv.ann[1].rowid = 2

---------------------------------------------------------------------------
(* Properties of the binary encoding *)

=============================================================================
